---- MODULE Spec2Model ----
(***************************************************************************)
(* FSLogHandler: a log handler that appends rendered log lines to a file   *)
(* under /log, syncs it from loop() and dumps it to a stream with a        *)
(* persistent read cursor.  Model of src/src/FSLogHandler.{h,cpp}.         *)
(*                                                                         *)
(* Byte strings are sequences of spans [t, o, n]: the n bytes at offsets   *)
(* o .. o+n-1 of the text named t.  Two byte strings are equal iff their   *)
(* span sequences (kept with maximal spans) are equal, so a log line of    *)
(* 4088 bytes costs one span and still keeps every byte's identity.        *)
(***************************************************************************)
EXTENDS Integers, Sequences, FiniteSets, TLC

\* ------------------------------------------------------------------ bounds
\* System.uptime() is explored up to this many seconds.
MaxUptime == 21
\* At most this many lines are appended to one log file between truncations.
MaxLines == 2
\* At most this many read() calls fail in one run of the program.
MaxReadErrors == 1

\* ------------------------------------------------------- program constants
\* FSLogHandler.cpp:72, the byte count loop() compares _bytes_queued with.
LoopBytes == 4096
\* FSLogHandler.cpp:72, the seconds loop() compares the elapsed time with.
LoopSeconds == 10
\* FSLogHandler.cpp:21, the constructor's configureFsync(4096, 10).
DefaultMaxBytes == 4096
DefaultTimeout == 10
\* FSLogHandler.cpp:113, char buf[1024].
BufSize == 1024

\* The handlers a program may construct, by the filename each is given.
Handlers == {"test", "aux"}
\* The handler the example program constructs (example/main.cpp:42).
Program == {"test"}

\* -------------------------------------------------------------- byte strings
Str(t, n) == IF n = 0 THEN <<>> ELSE <<[t |-> t, o |-> 0, n |-> n]>>

RECURSIVE StrLen(_)
StrLen(s) == IF s = <<>> THEN 0 ELSE s[1].n + StrLen(Tail(s))

\* String::concat: a followed by b (spans that continue each other merge).
Cat(a, b) ==
    IF a = <<>> THEN b
    ELSE IF b = <<>> THEN a
    ELSE LET x == a[Len(a)]
             y == b[1]
         IN  IF x.t = y.t /\ x.o + x.n = y.o
             THEN SubSeq(a, 1, Len(a) - 1)
                    \o <<[t |-> x.t, o |-> x.o, n |-> x.n + y.n]>> \o Tail(b)
             ELSE a \o b

\* The first k bytes of s.
RECURSIVE Take(_, _)
Take(s, k) ==
    IF k <= 0 \/ s = <<>> THEN <<>>
    ELSE IF s[1].n <= k THEN <<s[1]>> \o Take(Tail(s), k - s[1].n)
    ELSE <<[t |-> s[1].t, o |-> s[1].o, n |-> k]>>

\* s without its first k bytes.
RECURSIVE Drop(_, _)
Drop(s, k) ==
    IF k <= 0 \/ s = <<>> THEN s
    ELSE IF s[1].n <= k THEN Drop(Tail(s), k - s[1].n)
    ELSE <<[t |-> s[1].t, o |-> s[1].o + k, n |-> s[1].n - k]>> \o Tail(s)

\* ------------------------------------------------------------ log records
\* What the log manager hands to logMessage: msg, level, category, attr.
\* A text that may be null is a record [has, text].
NoText == [has |-> FALSE, text |-> <<>>]
Text(t, n) == [has |-> TRUE, text |-> Str(t, n)]

\* A short message with no attributes: renders to 9 bytes.
RecSmall ==
    [msg |-> Text("m", 1), level |-> Str("INFO", 4), category |-> NoText,
     has_time |-> FALSE, has_file |-> FALSE, file_dir |-> <<>>, file_base |-> <<>>,
     has_line |-> FALSE, line |-> <<>>,
     has_function |-> FALSE, func_ret |-> <<>>, func_name |-> <<>>, func_args |-> <<>>,
     has_code |-> FALSE, code |-> <<>>, has_details |-> FALSE, details |-> <<>>]

\* A long message with no attributes: renders to 4088 bytes, so that one
\* RecBig and one RecSmall queue 4097 bytes and two RecBig span 8 chunks.
RecBig == [RecSmall EXCEPT !.msg = Text("M", 4080)]

\* A record with every optional field present, for the branches of Render the
\* two records above do not take.
RecFull ==
    [msg |-> Text("m", 1), level |-> Str("WARN", 4), category |-> Text("app.gps", 7),
     has_time |-> TRUE, has_file |-> TRUE,
     file_dir |-> Str("src/", 4), file_base |-> Str("gps.cpp", 7),
     has_line |-> TRUE, line |-> Str("42", 2),
     has_function |-> TRUE, func_ret |-> Str("void ", 5),
     func_name |-> Str("poll", 4), func_args |-> Str("(int)", 5),
     has_code |-> TRUE, code |-> Str("0x2a", 4),
     has_details |-> TRUE, details |-> Str("fix lost", 8)]

\* The records the log manager delivers in the runs explored.
Records == {RecSmall, RecBig}

\* Every combination of present and absent optional fields (msg and category
\* may be null, the attributes have their has_ flags).
AllRecords ==
    {[RecFull EXCEPT !.msg = IF b[1] THEN @ ELSE NoText,
                     !.category = IF b[2] THEN @ ELSE NoText,
                     !.has_time = b[3], !.has_file = b[4], !.has_line = b[5],
                     !.has_function = b[6], !.has_code = b[7], !.has_details = b[8]] :
        b \in [1 .. 8 -> BOOLEAN]}

\* extractFileName: the text after the last '/'.
extractFileName(r) == r.file_base

\* extractFuncName: a pointer to the name, past the return type; the text it
\* points to runs to the end of the signature (the size it also returns is
\* not used by the caller).
extractFuncName(r) == Cat(r.func_name, r.func_args)

\* logMessage lines 158-222: the line built in String s.
Render(r) ==
    LET s1 == IF r.has_time THEN Str("%010u ", 11) ELSE <<>>
        s2 == IF r.category.has
              THEN Cat(Cat(Cat(s1, Str("[", 1)), r.category.text), Str("] ", 2))
              ELSE s1
        \* s = extractFileName(attr.file); s.concat(s);
        f1 == extractFileName(r)
        f2 == Cat(f1, f1)
        f3 == IF r.has_line THEN Cat(Cat(f2, Str(":", 1)), r.line) ELSE f2
        s3 == IF r.has_file
              THEN Cat(f3, IF r.has_function THEN Str(", ", 2) ELSE Str(": ", 2))
              ELSE s2
        \* s = extractFuncName(attr.function, &n); s.concat(s);
        g1 == extractFuncName(r)
        s4 == IF r.has_function
              THEN Cat(Cat(g1, g1), Str("(): ", 4))
              ELSE s3
        s5 == Cat(Cat(s4, r.level), Str(": ", 2))
        s6 == IF r.msg.has THEN Cat(s5, r.msg.text) ELSE s5
        c1 == Cat(s6, Str(" [", 2))
        c2 == IF r.has_code THEN Cat(Cat(c1, Str("code = ", 7)), r.code) ELSE c1
        c3 == IF r.has_details
              THEN Cat(Cat(IF r.has_code THEN Cat(c2, Str(", ", 2)) ELSE c2,
                           Str("details = ", 10)), r.details)
              ELSE c2
        s7 == IF r.has_code \/ r.has_details THEN Cat(c3, Str("]", 1)) ELSE s6
    IN  Cat(s7, Str("\\n\\r", 2))

\* ------------------------------------------------------------------ state
VARIABLES
    \* FSLogHandler's private fields, one value per handler
    _enabled, _open, _fd, _bytes_queued, _max_bytes_queued, _fsync_timeout_s,
    \* static unsigned int last_ran of loop(), and whether its initialiser ran
    last_ran, last_ran_init,
    \* static _off_t f_cursor of dump()
    f_cursor,
    \* System.uptime(), seconds
    uptime,
    \* the filesystem: what /log is, and each handler's /log/<name>.log
    log_dir, files,
    \* the dump() call in progress: position, handler, arguments and locals
    dpc, dump_h, read_from_beginning, dump_fd, dump_pos, buf, bytes, stream,
    failed, read_errors, cursor_in,
    \* history: uptime of each handler's last fsync (or open), the bytes each
    \* has appended since its last loop() call, what was appended to the file
    \* since the last dump of it, and the last API call made
    synced_at, appended, tail, last,
    \* LogManager's list of handlers (addHandler, removeHandler), and how many
    \* statements of each handler's destructor have run
    registered, dtor,
    \* history: what the accepted logMessage calls of each handler have done
    \* since its construction or its last clearLogs()
    lifecycle,
    \* the formatter on its own: a record, and the line logMessage builds for it
    record, rendered

hvars == <<_enabled, _open, _fd, _bytes_queued, _max_bytes_queued, _fsync_timeout_s>>
fsvars == <<log_dir, files>>
dumpvars == <<dpc, dump_h, read_from_beginning, dump_fd, dump_pos, buf, bytes,
              stream, failed, read_errors, cursor_in>>
lifevars == <<registered, dtor>>
fmtvars == <<record, rendered>>
vars == <<hvars, last_ran, last_ran_init, f_cursor, uptime, fsvars, dumpvars,
          synced_at, appended, tail, last, lifevars, lifecycle, fmtvars>>

\* System.uptime() - last_ran, in unsigned int: last_ran is an earlier reading
\* of the same clock, so the difference never wraps.
Elapsed(now, ran) == now - ran

NoFile == [exists |-> FALSE, data |-> <<>>]
\* A log file left by an earlier boot of the device.
OldFile == [exists |-> TRUE, data |-> Render(RecSmall)]

\* The lines a byte string holds (each ends with the terminator logMessage adds).
Lines(s) == Cardinality({i \in DOMAIN s : s[i].t = "\\n\\r"})

\* char buf[1024] of dump() before anything is read into it.
NoBuf == [set |-> FALSE, text |-> <<>>]

\* No dump has left the cursor at the end of a file that is still the same.
NoTail == [h |-> "test", full |-> FALSE, valid |-> FALSE, bytes |-> <<>>]

\* The record of an API call: the system calls it made, and what it found.
Call(op, h, sys) ==
    [op |-> op, h |-> h, sys |-> sys, open |-> FALSE, queued |-> 0, idle |-> 0,
     waited |-> 0, fresh |-> 0, ret |-> 0, rfb |-> FALSE, from |-> 0, clean |-> FALSE,
     resumes |-> FALSE, want |-> <<>>, out |-> <<>>]

Made(c, name) == \E i \in DOMAIN c.sys : c.sys[i] = name

\* String s of logMessage before the call has built it.
Unrendered == [done |-> FALSE, s |-> <<>>]

\* The object exists: its destructor has not been entered.
Alive(h) == dtor[h] = 0

\* The constructor: fields as lines 14-21 set them; nothing is opened.
\* P is the set of handlers the program constructs; a handler outside P never
\* acts, and its file does not exist.
InitHandlers(P) ==
    /\ _enabled \in [Handlers -> BOOLEAN]
    /\ _open = [h \in Handlers |-> FALSE]
    /\ _fd = [h \in Handlers |-> -1]
    /\ _bytes_queued = [h \in Handlers |-> 0]
    /\ _max_bytes_queued = [h \in Handlers |-> DefaultMaxBytes]
    /\ _fsync_timeout_s = [h \in Handlers |-> DefaultTimeout]
    /\ last_ran = 0
    /\ last_ran_init = FALSE
    /\ f_cursor = 0
    /\ uptime = 0
    /\ log_dir \in {"absent", "file", "dir"}
    /\ files \in [Handlers -> {NoFile, OldFile}]
    /\ log_dir # "dir" => files = [h \in Handlers |-> NoFile]
    /\ \A h \in Handlers \ P : ~_enabled[h] /\ files[h] = NoFile
    /\ dpc = "idle"
    /\ dump_h = "test"
    /\ read_from_beginning = FALSE
    /\ dump_fd = -1
    /\ dump_pos = 0
    /\ buf = NoBuf
    /\ bytes = 0
    /\ stream = <<>>
    /\ failed = FALSE
    /\ read_errors = 0
    /\ cursor_in = 0
    /\ synced_at = [h \in Handlers |-> 0]
    /\ appended = [h \in Handlers |-> 0]
    /\ tail = NoTail
    /\ last = Call("construct", "test", <<>>)
    /\ registered = [h \in Handlers |-> h \in P]
    /\ dtor = [h \in Handlers |-> 0]
    /\ lifecycle = [h \in Handlers |-> "fresh"]

InitOf(P) == InitHandlers(P) /\ record = RecSmall /\ rendered = Unrendered

Init == InitOf(Handlers)

\* ------------------------------------------------------------- the writer
\* configureFsync(max_bytes, timeout_s)
configureFsync(h, max_bytes, timeout_s) ==
    /\ dpc = "idle" /\ Alive(h)
    /\ UNCHANGED <<lifevars, lifecycle, fmtvars>>
    /\ _max_bytes_queued' = [_max_bytes_queued EXCEPT ![h] = max_bytes]
    /\ _fsync_timeout_s' = [_fsync_timeout_s EXCEPT ![h] = timeout_s]
    /\ last' = Call("configureFsync", h, <<>>)
    /\ UNCHANGED <<_enabled, _open, _fd, _bytes_queued, last_ran, last_ran_init,
                   f_cursor, uptime, fsvars, dumpvars, synced_at, appended, tail>>

\* enable(enable)
enable(h, e) ==
    /\ dpc = "idle" /\ Alive(h)
    /\ UNCHANGED <<lifevars, lifecycle, fmtvars>>
    /\ _enabled' = [_enabled EXCEPT ![h] = e]
    /\ last' = Call("enable", h, <<>>)
    /\ UNCHANGED <<_open, _fd, _bytes_queued, _max_bytes_queued, _fsync_timeout_s,
                   last_ran, last_ran_init, f_cursor, uptime, fsvars, dumpvars,
                   synced_at, appended, tail>>

\* Seconds pass between two calls of the host loop.
TimeSteps == {5, 11}
AdvanceTime(d) ==
    /\ dpc = "idle"
    /\ UNCHANGED <<lifevars, lifecycle, fmtvars>>
    /\ uptime + d <= MaxUptime
    /\ uptime' = uptime + d
    /\ UNCHANGED <<hvars, last_ran, last_ran_init, f_cursor, fsvars, dumpvars,
                   synced_at, appended, tail, last>>

\* loop() with the byte test off by one.
ShouldFsync_Over(h, ran) ==
    \/ Elapsed(uptime, ran) > LoopSeconds /\ _bytes_queued[h] > 0
    \/ _bytes_queued[h] > LoopBytes + 1

\* loop() syncing on the timeout with nothing pending.
ShouldFsync_Idle(h, ran) ==
    \/ Elapsed(uptime, ran) > LoopSeconds
    \/ _bytes_queued[h] > LoopBytes

\* The condition of loop()'s inner if, line 72.
ShouldFsync(h, ran) ==
    \/ Elapsed(uptime, ran) > LoopSeconds /\ _bytes_queued[h] > 0
    \/ _bytes_queued[h] > LoopBytes

\* loop(): the static's initialiser runs in the first call of any handler.
loop(h) ==
    LET ran == IF last_ran_init THEN last_ran ELSE uptime
        sync == _open[h] /\ ShouldFsync(h, ran)
        c == [Call("loop", h, IF sync THEN <<"fsync">> ELSE <<>>) EXCEPT
                !.open = _open[h], !.queued = _bytes_queued[h],
                !.idle = uptime - synced_at[h], !.waited = Elapsed(uptime, ran),
                !.fresh = appended[h]]
    IN  /\ dpc = "idle" /\ Alive(h)
        /\ UNCHANGED <<lifevars, lifecycle, fmtvars>>
        /\ last_ran_init' = TRUE
        /\ last_ran' = IF sync THEN uptime ELSE ran
        /\ _bytes_queued' = IF sync THEN [_bytes_queued EXCEPT ![h] = 0]
                            ELSE _bytes_queued
        /\ synced_at' = IF sync THEN [synced_at EXCEPT ![h] = uptime] ELSE synced_at
        /\ appended' = [appended EXCEPT ![h] = 0]
        /\ last' = c
        /\ UNCHANGED <<_enabled, _open, _fd, _max_bytes_queued, _fsync_timeout_s,
                       f_cursor, uptime, fsvars, dumpvars, tail>>

\* ------------------------------------------------------- the filesystem
\* File descriptors open() can return; 0, 1 and 2 are the standard streams.
Fds == 3 .. 5
OpenFds == {_fd[h] : h \in {g \in Handlers : _open[g]}} \cup {dump_fd}
NewFd == CHOOSE fd \in Fds \ OpenFds : \A g \in Fds \ OpenFds : fd <= g

\* What the environment decides in one logMessage call: stat() failing with an
\* errno other than ENOENT, and whether mkdir(), open() and write() succeed.
\* At most one of the four goes wrong in one call.
NoFault == [stat_err |-> FALSE, mkdir_ok |-> TRUE, open_ok |-> TRUE, write_ok |-> TRUE]
Envs == {NoFault, [NoFault EXCEPT !.stat_err = TRUE], [NoFault EXCEPT !.mkdir_ok = FALSE],
         [NoFault EXCEPT !.open_ok = FALSE], [NoFault EXCEPT !.write_ok = FALSE]}

\* createDirIfNecessary that does not test S_IFDIR and takes whatever is at
\* the path for a file in the way.
createDirIfNecessary_Recreates(dir, env) ==
    IF env.stat_err
    THEN [dir |-> dir, ok |-> FALSE, sys |-> <<"stat">>]
    ELSE LET sys == IF dir = "absent" THEN <<"stat", "mkdir">>
                    ELSE <<"stat", "unlink", "mkdir">>
         IN  IF env.mkdir_ok
             THEN [dir |-> "dir", ok |-> TRUE, sys |-> sys]
             ELSE [dir |-> "absent", ok |-> FALSE, sys |-> sys]

\* createDirIfNecessary("/log"): what /log is afterwards, the value returned
\* and the system calls made.
createDirIfNecessary(dir, env) ==
    IF env.stat_err
    THEN [dir |-> dir, ok |-> FALSE, sys |-> <<"stat">>]
    ELSE IF dir = "dir"
    THEN [dir |-> dir, ok |-> TRUE, sys |-> <<"stat">>]
    ELSE LET sys == IF dir = "file" THEN <<"stat", "unlink", "mkdir">>
                    ELSE <<"stat", "mkdir">>
         IN  IF env.mkdir_ok
             THEN [dir |-> "dir", ok |-> TRUE, sys |-> sys]
             ELSE [dir |-> "absent", ok |-> FALSE, sys |-> sys]

\* fileInit() that opens (and truncates) the file on every call.
MustOpen_Always(h) == TRUE

\* fileInit() has to open the file.
MustOpen(h) == ~_open[h] \/ _fd[h] = -1

\* fileInit(): the directory record, whether open() returned a descriptor, and
\* the system calls made.  The value createDirIfNecessary returns is not read.
fileInit(h, env) ==
    IF MustOpen(h)
    THEN LET d == createDirIfNecessary(log_dir, env)
         IN  [dir |-> d.dir, opened |-> d.dir = "dir" /\ env.open_ok,
              ok |-> d.dir = "dir" /\ env.open_ok, sys |-> d.sys \o <<"open">>]
    ELSE [dir |-> log_dir, opened |-> FALSE, ok |-> TRUE, sys |-> <<>>]

\* logMessage without the test of _enabled.
Accepts_Always(h) == TRUE

\* logMessage accepts the record (line 149).
Accepts(h) == _enabled[h]

\* writeToFile counting the terminator twice.
Queued_Off(q, n) == q + n + 2

\* The counter after writeToFile has written a message of n bytes (line 64);
\* MaxLines keeps it far below the width of unsigned int.
Queued(q, n) == q + n

\* logMessage(msg, level, category, attr), with fileInit and writeToFile.
logMessage(h, r, env) ==
    LET fi == fileInit(h, env)
        s == Render(r)
        old == IF fi.opened THEN <<>> ELSE files[h].data
        wrote == fi.ok /\ env.write_ok
        sys == IF fi.ok THEN fi.sys \o <<"write">> ELSE fi.sys
    IN  /\ dpc = "idle" /\ registered[h]
        /\ Accepts(h) /\ ~MustOpen(h) => Lines(files[h].data) < MaxLines
        /\ UNCHANGED <<lifevars, fmtvars>>
        /\ IF ~Accepts(h)
           THEN /\ last' = Call("logMessage", h, <<>>)
                /\ UNCHANGED <<hvars, fsvars, synced_at, appended, tail, lifecycle>>
           ELSE /\ log_dir' = fi.dir
                /\ _open' = [_open EXCEPT ![h] = IF MustOpen(h) THEN fi.opened ELSE @]
                /\ _fd' = [_fd EXCEPT ![h] = IF ~MustOpen(h) THEN @
                                            ELSE IF fi.opened THEN NewFd ELSE -1]
                /\ files' = [files EXCEPT ![h] =
                               IF fi.opened \/ files[h].exists
                               THEN [exists |-> TRUE,
                                     data |-> IF wrote THEN Cat(old, s) ELSE old]
                               ELSE @]
                /\ _bytes_queued' = [_bytes_queued EXCEPT ![h] =
                                       IF wrote THEN Queued(@, StrLen(s)) ELSE @]
                /\ synced_at' = [synced_at EXCEPT ![h] = IF fi.opened THEN uptime ELSE @]
                /\ appended' = [appended EXCEPT ![h] =
                                  (IF fi.opened THEN 0 ELSE @)
                                    + (IF wrote THEN StrLen(s) ELSE 0)]
                /\ tail' = IF tail.h # h \/ ~tail.valid THEN tail
                            ELSE IF fi.opened THEN NoTail
                            ELSE IF wrote THEN [tail EXCEPT !.bytes = Cat(@, s)]
                            ELSE tail
                /\ lifecycle' = [lifecycle EXCEPT ![h] =
                                   IF fi.opened THEN "opened"
                                   ELSE IF @ = "fresh" THEN "failed" ELSE @]
                /\ last' = Call("logMessage", h, sys)
                /\ UNCHANGED <<_enabled, _max_bytes_queued, _fsync_timeout_s>>
        /\ UNCHANGED <<last_ran, last_ran_init, f_cursor, uptime, dumpvars>>

\* syncAndClose() that forgets to zero the counter.
syncAndClose_KeepsCount(h) ==
    IF _open[h]
    THEN [open |-> FALSE, queued |-> _bytes_queued[h], sys |-> <<"fsync", "close">>]
    ELSE [open |-> FALSE, queued |-> _bytes_queued[h], sys |-> <<>>]

\* syncAndClose(): _open and _bytes_queued as it leaves them, and the system
\* calls made.
syncAndClose(h) ==
    IF _open[h]
    THEN [open |-> FALSE, queued |-> 0, sys |-> <<"fsync", "close">>]
    ELSE [open |-> FALSE, queued |-> _bytes_queued[h], sys |-> <<>>]

\* syncAndClose() and unlink(): clearLogs().
clearLogs(h) ==
    /\ dpc = "idle" /\ Alive(h)
    /\ lifecycle' = [lifecycle EXCEPT ![h] = "fresh"]
    /\ UNCHANGED <<lifevars, fmtvars>>
    /\ _open' = [_open EXCEPT ![h] = syncAndClose(h).open]
    /\ _bytes_queued' = [_bytes_queued EXCEPT ![h] = syncAndClose(h).queued]
    /\ synced_at' = [synced_at EXCEPT ![h] = IF _open[h] THEN uptime ELSE @]
    /\ appended' = [appended EXCEPT ![h] = IF _open[h] THEN 0 ELSE @]
    /\ files' = [files EXCEPT ![h] = NoFile]
    /\ tail' = IF tail.h = h THEN NoTail ELSE tail
    /\ last' = [Call("clearLogs", h, syncAndClose(h).sys \o <<"unlink">>) EXCEPT
                  !.open = _open[h], !.queued = _bytes_queued[h]]
    /\ UNCHANGED <<_enabled, _fd, _max_bytes_queued, _fsync_timeout_s, last_ran,
                   last_ran_init, f_cursor, uptime, log_dir, dumpvars>>

\* ~FSLogHandler() with its two statements in the other order.
Destructor_SyncFirst == <<"syncAndClose", "removeHandler">>

\* The statements of ~FSLogHandler(), in order (lines 28-29).
Destructor == <<"removeHandler", "syncAndClose">>

\* One statement of ~FSLogHandler().  The log manager delivers records to the
\* handlers on its list from whichever thread logs, so a record may arrive
\* between the two statements; the program itself calls nothing on an object
\* it is destroying.
Destruct(h) ==
    LET st == Destructor[dtor[h] + 1]
        c == syncAndClose(h)
    IN  /\ dpc = "idle"
        /\ dtor[h] < Len(Destructor)
        /\ dtor' = [dtor EXCEPT ![h] = @ + 1]
        /\ IF st = "removeHandler"
           THEN /\ registered' = [registered EXCEPT ![h] = FALSE]
                /\ last' = Call("~FSLogHandler", h, <<>>)
                /\ UNCHANGED <<_open, _bytes_queued, synced_at, appended>>
           ELSE /\ _open' = [_open EXCEPT ![h] = c.open]
                /\ _bytes_queued' = [_bytes_queued EXCEPT ![h] = c.queued]
                /\ synced_at' = [synced_at EXCEPT ![h] = IF _open[h] THEN uptime ELSE @]
                /\ appended' = [appended EXCEPT ![h] = IF _open[h] THEN 0 ELSE @]
                /\ last' = Call("~FSLogHandler", h, c.sys)
                /\ UNCHANGED registered
        /\ UNCHANGED <<_enabled, _fd, _max_bytes_queued, _fsync_timeout_s, last_ran,
                       last_ran_init, f_cursor, uptime, fsvars, dumpvars, tail,
                       lifecycle, fmtvars>>

\* Lines 158-222 of logMessage on their own: the line built for a record.
Format ==
    /\ ~rendered.done
    /\ rendered' = [done |-> TRUE, s |-> Render(record)]
    /\ UNCHANGED <<hvars, last_ran, last_ran_init, f_cursor, uptime, fsvars, dumpvars,
                   synced_at, appended, tail, last, lifevars, lifecycle, record>>

\* What statbuf.st_size can hold when stat() fails and leaves statbuf as the
\* stack had it: any value, of which these three stand for the negative, the
\* zero and the positive ones.
Indeterminate == {-1, 0, 4096}

\* getLogSize(): the values it can return.
getLogSizeResults(h) ==
    IF _open[h] \/ files[h].exists THEN {StrLen(files[h].data)} ELSE Indeterminate

getLogSize(h) ==
    /\ dpc = "idle" /\ Alive(h)
    /\ UNCHANGED <<lifevars, lifecycle, fmtvars>>
    /\ \E ret \in getLogSizeResults(h) :
          last' = [Call("getLogSize", h, <<IF _open[h] THEN "fstat" ELSE "stat">>)
                     EXCEPT !.ret = ret]
    /\ UNCHANGED <<hvars, last_ran, last_ran_init, f_cursor, uptime, fsvars, dumpvars,
                   synced_at, appended, tail>>


\* ------------------------------------------------------------ the reader
\* dump()'s test of the descriptor open() returned (line 102).
OpenFailed(fd) == fd = 0

\* dump() that does not reset the cursor for read_from_beginning.
StartCursor_Kept(rfb, cursor) == cursor

\* f_cursor after lines 107-111.
StartCursor(rfb, cursor) == IF rfb THEN 0 ELSE cursor

\* The offset of dump_fd after lines 107-111: a new descriptor is at 0, and
\* lseek() to a negative offset fails and leaves it there.
StartPos(rfb, cursor) == IF rfb \/ cursor < 0 THEN 0 ELSE cursor

\* What read(dump_fd, buf, sizeof(buf) - 1) returns at offset pos of a file
\* of len bytes.
ReadCount(len, pos) ==
    IF len - pos <= 0 THEN 0
    ELSE IF len - pos < BufSize - 1 THEN len - pos ELSE BufSize - 1

\* dump() that does not advance the cursor.
NextCursor_Stuck(cursor, n) == cursor

\* f_cursor += (_off_t)bytes (line 117).
NextCursor(cursor, n) == cursor + n

\* while (bytes) (line 121).
LoopAgain(n) == n # 0

\* What printf("%s", buf) can print when nothing was ever read into buf: the
\* stack's bytes up to the first 0, none or some.
Garbage == {<<>>, Str("?", 3)}

\* dump(stream, read_from_beginning) up to the do loop: open, test, seek.
DumpBegin(h, rfb, open_ok) ==
    LET fd == IF files[h].exists /\ open_ok THEN NewFd ELSE -1
    IN  /\ dpc = "idle" /\ Alive(h)
        /\ UNCHANGED <<lifevars, lifecycle, fmtvars>>
        /\ IF OpenFailed(fd)
           THEN /\ last' = [Call("dump", h, <<"open">>) EXCEPT
                              !.rfb = rfb, !.from = f_cursor]
                /\ UNCHANGED <<f_cursor, dumpvars, tail>>
           ELSE /\ dpc' = "read"
                /\ dump_h' = h
                /\ read_from_beginning' = rfb
                /\ dump_fd' = fd
                /\ cursor_in' = f_cursor
                /\ f_cursor' = StartCursor(rfb, f_cursor)
                /\ dump_pos' = IF fd = -1 THEN 0 ELSE StartPos(rfb, f_cursor)
                /\ buf' = NoBuf
                /\ bytes' = 0
                /\ stream' = <<>>
                /\ failed' = FALSE
                /\ UNCHANGED <<read_errors, tail, last>>
        /\ UNCHANGED <<hvars, last_ran, last_ran_init, uptime, fsvars, synced_at,
                       appended>>

\* One pass of the do loop (lines 116-121) and, when it is the last, close()
\* and the return.  No other call runs in between: the handler's calls all come
\* from the host loop's thread.
\* A read that fails returns -1: the cursor moves back by one and buf[-1] = 0
\* is written outside buf.  The byte before buf is the top byte of a
\* neighbouring word of the frame; zeroing it in bytes (-1) or in dump_fd (-1,
\* or a small descriptor) leaves bytes non-zero and dump_fd as valid as it was,
\* so the pass goes on as written: buf still holds what it held and that is
\* printed again, or junk when nothing was ever read into it.
DumpRead(fail, junk) ==
    LET data == files[dump_h].data
        n == IF fail THEN -1 ELSE ReadCount(StrLen(data), dump_pos)
        text == IF fail THEN buf.text ELSE Take(Drop(data, dump_pos), n)
        printed == IF fail /\ ~buf.set THEN junk ELSE text
        out == Cat(stream, printed)
        clean == dump_fd # -1 /\ ~failed
        resumes == tail.valid /\ tail.h = dump_h
    IN  /\ dpc = "read"
        /\ UNCHANGED <<lifevars, lifecycle, fmtvars>>
        /\ dump_fd = -1 => fail
        /\ fail => read_errors < MaxReadErrors
        /\ (fail /\ ~buf.set) \/ junk = <<>>
        /\ f_cursor' = NextCursor(f_cursor, n)
        /\ IF LoopAgain(n)
           THEN /\ bytes' = n
                /\ buf' = IF fail THEN buf ELSE [set |-> TRUE, text |-> text]
                /\ dump_pos' = IF fail THEN dump_pos ELSE dump_pos + n
                /\ stream' = out
                /\ read_errors' = IF fail THEN read_errors + 1 ELSE read_errors
                /\ failed' = (failed \/ fail)
                /\ UNCHANGED <<dpc, dump_h, read_from_beginning, dump_fd, cursor_in,
                               tail, last>>
           ELSE /\ dpc' = "idle"
                /\ dump_fd' = -1
                /\ dump_pos' = 0
                /\ buf' = NoBuf
                /\ bytes' = 0
                /\ stream' = <<>>
                /\ failed' = FALSE
                /\ cursor_in' = 0
                /\ UNCHANGED read_errors
                /\ tail' = [h |-> dump_h, full |-> read_from_beginning,
                            valid |-> clean /\ (read_from_beginning \/ resumes),
                            bytes |-> <<>>]
                /\ last' = [Call("dump", dump_h, <<"open", "read", "close">>) EXCEPT
                              !.rfb = read_from_beginning, !.from = cursor_in,
                              !.clean = clean, !.resumes = resumes /\ tail.full,
                              !.want = IF resumes THEN tail.bytes ELSE <<>>,
                              !.out = out]
                /\ UNCHANGED <<dump_h, read_from_beginning>>
        /\ UNCHANGED <<hvars, last_ran, last_ran_init, uptime, fsvars, synced_at,
                       appended>>

\* ------------------------------------------------------- specifications
Policies == {<<DefaultMaxBytes, DefaultTimeout>>, <<8, 4>>}

Writes(P) == \E h \in P, r \in Records, env \in Envs : logMessage(h, r, env)
Enables(P) == \E h \in P, e \in BOOLEAN : enable(h, e)
Configures(P) == \E h \in P, p \in Policies : configureFsync(h, p[1], p[2])
Loops(P) == \E h \in P : loop(h)
Clears(P) == \E h \in P : clearLogs(h)
Sizes(P) == \E h \in P : getLogSize(h)
Ticks == \E d \in TimeSteps : AdvanceTime(d)
DumpBegins(P) == \E h \in P, rfb \in BOOLEAN, open_ok \in BOOLEAN : DumpBegin(h, rfb, open_ok)
DumpReads == \E fail \in BOOLEAN, junk \in Garbage : DumpRead(fail, junk)
Destroys(P) == \E h \in P : Destruct(h)

\* Every operation of every handler.
Next ==
    \/ Writes(Handlers) \/ Enables(Handlers) \/ Configures(Handlers)
    \/ Loops(Handlers) \/ Clears(Handlers) \/ Sizes(Handlers) \/ Ticks
    \/ DumpBegins(Handlers) \/ DumpReads \/ Destroys(Handlers)
Spec == Init /\ [][Next]_vars

\* The example program's handler, written to, synced and cleared as time
\* passes.  No dump() is called: dump() writes f_cursor and its own locals
\* only, none of which these operations read.
NextWriter ==
    \/ Writes(Program) \/ Enables(Program) \/ Configures(Program)
    \/ Loops(Program) \/ Clears(Program) \/ Sizes(Program) \/ Ticks
SpecWriter == InitOf(Program) /\ [][NextWriter]_vars

\* The example program's handler, written to, cleared and dumped.  The clock
\* stands still and loop(), configureFsync() and getLogSize() are not called:
\* they write the byte counter, the policy and last_ran only, none of which
\* dump() reads.
NextDump ==
    \/ Writes(Program) \/ Enables(Program) \/ Clears(Program)
    \/ DumpBegins(Program) \/ DumpReads
SpecDump == InitOf(Program) /\ [][NextDump]_vars

\* The example program's handler from its construction to its destruction,
\* with the clock standing still and no dump() call.
NextLife ==
    \/ Writes(Program) \/ Enables(Program) \/ Loops(Program) \/ Clears(Program)
    \/ Destroys(Program)
SpecLife == InitOf(Program) /\ [][NextLife]_vars

\* The formatter applied to one record of any shape.
InitRender == InitHandlers(Program) /\ record \in AllRecords /\ rendered = Unrendered
SpecRender == InitRender /\ [][Format]_vars

\* A program with two handlers on two log files, both written to, synced,
\* cleared and dumped as time passes, with a filesystem that does not fail.
NextTwo ==
    \/ \E h \in Handlers : logMessage(h, RecSmall, NoFault)
    \/ Loops(Handlers) \/ Clears(Handlers) \/ AdvanceTime(LoopSeconds + 1)
    \/ \E h \in Handlers, rfb \in BOOLEAN : DumpBegin(h, rfb, TRUE)
    \/ DumpRead(FALSE, <<>>)
InitTwo ==
    /\ InitOf(Handlers)
    /\ \A h \in Handlers : _enabled[h]
    /\ log_dir = "dir"
    /\ \A h \in Handlers : ~files[h].exists
SpecTwo == InitTwo /\ [][NextTwo]_vars

\* ------------------------------------------------------------ properties
Synced(c) == Made(c, "fsync")

\* C1: after configureFsync(max_bytes, timeout_s), loop() on an open file syncs
\* iff more than max_bytes bytes are pending, or some bytes are pending and
\* more than timeout_s seconds have passed since the last flush.
C1_LoopUsesConfiguredPolicy ==
    last.op = "loop" /\ last.open =>
        (Synced(last) <=>
            \/ last.queued > _max_bytes_queued[last.h]
            \/ last.queued > 0 /\ last.waited > _fsync_timeout_s[last.h])

\* C2: with the timeout at 10 s, loop() on an open file with at least one byte
\* pending syncs when 11 s or more have passed since the handler's last fsync
\* (or since the file was opened), the first loop() call included.
C2_LoopSyncsAfterTimeout ==
    /\ last.op = "loop" /\ last.open /\ last.queued >= 1
    /\ _fsync_timeout_s[last.h] = 10 /\ last.idle >= 11
    => Synced(last)

\* C3: with the byte threshold at 4096, once logMessage calls have appended
\* 4097 bytes or more since the last loop(), loop() syncs and leaves
\* _bytes_queued at 0.
C3_LoopSyncsOverByteThreshold ==
    /\ last.op = "loop" /\ last.fresh >= 4097
    /\ _max_bytes_queued[last.h] = 4096
    => Synced(last) /\ _bytes_queued[last.h] = 0

C3_Witness ==
    /\ last.op = "loop" /\ last.fresh >= 4097 /\ _max_bytes_queued[last.h] = 4096
    /\ Synced(last) /\ _bytes_queued[last.h] = 0

\* C4: loop() never syncs when the file is not open or nothing is pending,
\* whatever time has passed, and then leaves _open and _bytes_queued alone.
C4_LoopIdleNeverSyncs ==
    last.op = "loop" /\ (~last.open \/ last.queued = 0) =>
        /\ ~Synced(last)
        /\ _open[last.h] = last.open
        /\ _bytes_queued[last.h] = last.queued

C4_Witness ==
    /\ last.op = "loop" /\ last.open /\ last.queued = 0 /\ last.waited > 10
    /\ ~Synced(last)

\* C5: a logMessage call on a disabled handler makes no system call (no stat,
\* mkdir, open or write) and leaves the filesystem and the handle as they were,
\* so no sequence of such calls creates the log file.
C5_DisabledNeverCreates ==
    [][\A h \in Handlers, r \in Records, env \in Envs :
          ~_enabled[h] /\ last'.op = "logMessage" /\ logMessage(h, r, env) =>
              /\ last'.sys = <<>>
              /\ UNCHANGED <<log_dir, files, _open, _fd, _bytes_queued>>]_vars

C5_Witness ==
    /\ last.op = "logMessage" /\ ~_enabled[last.h] /\ last.sys = <<>>
    /\ ~files[last.h].exists /\ ~_open[last.h]

\* C6: after clearLogs() the log file does not exist, the handle is closed, and
\* a getLogSize() call returns 0.
C6_ClearedSizeIsZero ==
    [][last.op = "clearLogs" =>
          /\ ~files[last.h].exists
          /\ ~_open[last.h]
          /\ getLogSize(last.h) => last'.ret = 0]_vars

\* A dump() call has returned after opening the file and reading it to the
\* end with no read() failing.
Dumped(c) == dpc = "idle" /\ c.op = "dump" /\ c.clean

\* C7: after dump(stream, true) has delivered a file of N bytes and logMessage
\* calls have appended M more, dump(stream, false) delivers exactly the M
\* appended bytes, in the order they were written.
C7_DumpResumes ==
    Dumped(last) /\ ~last.rfb /\ last.resumes => last.out = last.want

C7_Witness ==
    /\ Dumped(last) /\ ~last.rfb /\ last.resumes
    /\ last.from > 0 /\ StrLen(last.want) > BufSize /\ last.out = last.want
    /\ StrLen(files[last.h].data) = last.from + StrLen(last.want)

\* C8: whatever cursor earlier dumps have left, dump(stream, true) delivers the
\* whole file from offset 0 and leaves the cursor at the end of the file.
C8_DumpRewinds ==
    Dumped(last) /\ last.rfb =>
        /\ last.out = files[last.h].data
        /\ f_cursor = StrLen(files[last.h].data)

C8_Witness ==
    /\ Dumped(last) /\ last.rfb
    /\ last.from > 0 /\ last.from < StrLen(files[last.h].data)
    /\ last.out = files[last.h].data /\ f_cursor = StrLen(last.out)

\* C9: when open() fails in dump(), the call returns without a read() on the
\* failed descriptor, with nothing printed and f_cursor as the call found it.
C9_DumpDetectsFailedOpen ==
    dpc = "read" /\ dump_fd = -1 =>
        bytes = 0 /\ stream = <<>> /\ f_cursor = cursor_in

\* C10: every dump() call returns: each pass of the read loop either is the
\* last one, closing the descriptor, or moves the read offset forward in a
\* file of finite length, also when open() or read() has failed.
C10_DumpLoopEnds ==
    [][dpc = "read" /\ DumpReads =>
          \/ dpc' = "idle" /\ dump_fd' = -1
          \/ dump_pos' > dump_pos /\ dump_pos' <= StrLen(files[dump_h].data)]_vars

\* The bytes of old are the first bytes of new.
Extends(new, old) == Take(new, StrLen(old)) = old

\* enable() makes no system call and leaves the handle and the file alone.
EnableKeepsFile ==
    \A h \in Handlers, e \in BOOLEAN :
        last'.op = "enable" /\ enable(h, e) =>
            /\ last'.sys = <<>>
            /\ UNCHANGED <<_open, _fd, _bytes_queued, log_dir, files>>

\* C11 as claimed: the log file is truncated only by the first accepted
\* logMessage after construction or after clearLogs(); every other accepted
\* logMessage appends to the content the file has, and enable() neither opens
\* nor closes the file.
C11_TruncatedByFirstMessageOnly ==
    [][/\ \A h \in Handlers, r \in Records, env \in Envs :
             last'.op = "logMessage" /\ Accepts(h) /\ logMessage(h, r, env) =>
                 IF fileInit(h, env).opened
                 THEN lifecycle[h] = "fresh"
                 ELSE Extends(files'[h].data, files[h].data)
       /\ EnableKeepsFile]_vars

\* C11 amended: the log file is truncated only by an accepted logMessage that
\* opens it, and none opens it once one has since construction or the last
\* clearLogs(): a logMessage after a failed open opens and truncates too.
\* Every other accepted logMessage appends to the content the file has, and
\* enable() neither opens nor closes the file.
C11_TruncatedByFirstOpenOnly ==
    [][/\ \A h \in Handlers, r \in Records, env \in Envs :
             last'.op = "logMessage" /\ Accepts(h) /\ logMessage(h, r, env) =>
                 IF fileInit(h, env).opened
                 THEN lifecycle[h] # "opened"
                 ELSE Extends(files'[h].data, files[h].data)
       /\ EnableKeepsFile]_vars

C11_Witness ==
    /\ last.op = "logMessage" /\ last.sys = <<"write">>
    /\ lifecycle[last.h] = "opened" /\ _open[last.h]
    /\ Lines(files[last.h].data) = 2

\* The segment of each field of a record, empty when the field is absent.
SegTime(r) == IF r.has_time THEN Str("%010u ", 11) ELSE <<>>
SegCategory(r) ==
    IF r.category.has THEN Cat(Cat(Str("[", 1), r.category.text), Str("] ", 2)) ELSE <<>>
SegFile(r) ==
    IF r.has_file
    THEN Cat(Cat(r.file_base, IF r.has_line THEN Cat(Str(":", 1), r.line) ELSE <<>>),
             IF r.has_function THEN Str(", ", 2) ELSE Str(": ", 2))
    ELSE <<>>
SegFunction(r) == IF r.has_function THEN Cat(r.func_name, Str("(): ", 4)) ELSE <<>>
SegLevel(r) == Cat(r.level, Str(": ", 2))
SegMessage(r) == IF r.msg.has THEN r.msg.text ELSE <<>>
SegExtra(r) ==
    IF r.has_code \/ r.has_details
    THEN Cat(Cat(Cat(Cat(Str(" [", 2),
                         IF r.has_code THEN Cat(Str("code = ", 7), r.code) ELSE <<>>),
                     IF r.has_code /\ r.has_details THEN Str(", ", 2) ELSE <<>>),
                 IF r.has_details THEN Cat(Str("details = ", 10), r.details) ELSE <<>>),
             Str("]", 1))
    ELSE <<>>

\* The segments of the present fields in the fixed order, and the terminator.
InOrder(r) ==
    Cat(Cat(Cat(Cat(Cat(Cat(Cat(SegTime(r), SegCategory(r)), SegFile(r)), SegFunction(r)),
                    SegLevel(r)), SegMessage(r)), SegExtra(r)), Str("\\n\\r", 2))

\* C12: the line rendered for a record is made of the segments of its present
\* fields in the order timestamp, category, source file[:line], function,
\* severity, message, code/details block, each once, with nothing for an
\* absent field.
C12_RendersEverySegmentInOrder ==
    rendered.done => rendered.s = InOrder(record)

\* How many times a call made the system call name.
Times(c, name) == Cardinality({i \in DOMAIN c.sys : c.sys[i] = name})

\* C13: an accepted logMessage that finds /log missing creates the directory
\* (one mkdir) before it opens the log file, and the file is never opened
\* outside an existing directory; a bootstrap that finds the directory there
\* succeeds and makes no unlink and no mkdir, so /log is created once.
C13_DirectoryCreatedOnce ==
    [][\A h \in Handlers, r \in Records, env \in Envs :
          /\ last'.op = "logMessage" /\ Accepts(h) /\ MustOpen(h)
          /\ logMessage(h, r, env)
          => LET d == createDirIfNecessary(log_dir, env)
             IN  /\ log_dir = "absent" /\ d.ok =>
                       /\ log_dir' = "dir"
                       /\ SubSeq(last'.sys, 1, 3) = <<"stat", "mkdir", "open">>
                       /\ Times(last', "mkdir") = 1
                 /\ _open'[h] => log_dir' = "dir"
                 /\ log_dir = "dir" =>
                       /\ log_dir' = "dir"
                       /\ ~Made(last', "unlink") /\ ~Made(last', "mkdir")
                       /\ ~env.stat_err => d.ok]_vars

C13_Witness ==
    /\ last.op = "logMessage" /\ last.sys = <<"stat", "mkdir", "open", "write">>
    /\ log_dir = "dir" /\ _open[last.h] /\ files[last.h].exists

\* C16: when createDirIfNecessary fails in an accepted logMessage, no open of
\* the log file is attempted, the handle stays closed, nothing is written and
\* the record is dropped.
C16_BootstrapFailureStopsWrite ==
    [][\A h \in Handlers, r \in Records, env \in Envs :
          /\ last'.op = "logMessage" /\ Accepts(h) /\ MustOpen(h)
          /\ logMessage(h, r, env)
          /\ ~createDirIfNecessary(log_dir, env).ok
          => /\ ~Made(last', "open") /\ ~Made(last', "write")
             /\ ~_open'[h]
             /\ files'[h] = files[h] /\ _bytes_queued'[h] = _bytes_queued[h]]_vars

\* C17: when write() fails in an accepted logMessage, _bytes_queued and the
\* open handle stay as they are, the line is not in the file and write() is
\* not called again; when it succeeds, _bytes_queued grows by the length of
\* the rendered line.
C17_WriteFailureDropsRecord ==
    [][\A h \in Handlers, r \in Records, env \in Envs :
          /\ last'.op = "logMessage" /\ Accepts(h)
          /\ logMessage(h, r, env)
          /\ fileInit(h, env).ok
          => IF env.write_ok
             THEN /\ _bytes_queued'[h] = _bytes_queued[h] + StrLen(Render(r))
                  /\ files'[h].data =
                        Cat(IF MustOpen(h) THEN <<>> ELSE files[h].data, Render(r))
             ELSE /\ _bytes_queued'[h] = _bytes_queued[h]
                  /\ _open'[h] /\ (~MustOpen(h) => _fd'[h] = _fd[h])
                  /\ files'[h].data = IF MustOpen(h) THEN <<>> ELSE files[h].data
                  /\ Times(last', "write") = 1]_vars

\* write() has failed on a file that was just opened.
C17_Witness ==
    /\ last.op = "logMessage" /\ Times(last, "write") = 1
    /\ _open[last.h] /\ files[last.h].exists
    /\ _bytes_queued[last.h] = 0 /\ files[last.h].data = <<>>

\* C20: a handler whose file is closed has no pending bytes.
C20_ClosedMeansNothingPending ==
    \A h \in Handlers : ~_open[h] => _bytes_queued[h] = 0

C20_Witness ==
    /\ last.op = "clearLogs" /\ last.open /\ last.queued > 0 /\ Made(last, "close")
    /\ ~_open[last.h] /\ _bytes_queued[last.h] = 0

\* C15: f_cursor never decreases, except in a dump() called with
\* read_from_beginning, at the statement that resets it; a dump() without it
\* leaves the cursor no lower than it found it, also on a missing file or a
\* failed read.
C15_CursorNeverDecreases ==
    [][f_cursor' < f_cursor =>
          dpc = "idle" /\ dpc' = "read" /\ read_from_beginning']_vars

\* The time a loop() call of handler h measures the timeout from (the static's
\* initialiser runs in the first call), and the offset dump() resumes handler
\* h's file at: function-local statics, one object each for all the handlers
\* of the program.
LastFlush(h) == IF last_ran_init THEN last_ran ELSE uptime
Cursor(h) == f_cursor

\* A step of an operation called on handler g.
OpOn(g) ==
    \/ last'.op = "logMessage" /\ \E r \in Records, env \in Envs : logMessage(g, r, env)
    \/ last'.op = "loop" /\ loop(g)
    \/ last'.op = "clearLogs" /\ clearLogs(g)
    \/ dpc = "idle" /\ \E rfb \in BOOLEAN, open_ok \in BOOLEAN : DumpBegin(g, rfb, open_ok)
    \/ dpc = "read" /\ dump_h = g /\ DumpReads

\* C18: with two handlers on two log files, an operation on one leaves the
\* other's _bytes_queued, last-flush time and read cursor as they were.
C18_InstancesAreIndependent ==
    [][\A g \in Handlers : \A h \in Handlers \ {g} :
          OpOn(g) =>
              /\ _bytes_queued'[h] = _bytes_queued[h]
              /\ LastFlush(h)' = LastFlush(h)
              /\ Cursor(h)' = Cursor(h)]_vars

\* C19: between operations f_cursor is at most the length of the log file
\* (0 when there is none), so dump() without read_from_beginning never starts
\* past the end of the file.
C19_CursorWithinFile ==
    dpc = "idle" => f_cursor <= StrLen(files[dump_h].data)

\* The place of syncAndClose() among the destructor's statements.
SyncAt == CHOOSE k \in DOMAIN Destructor : Destructor[k] = "syncAndClose"

\* C14: the destructor unregisters the handler before it syncs and closes the
\* file, so no logMessage is delivered once syncAndClose() has started, and
\* when the destructor has returned the handle is closed.
C14_UnregisteredBeforeClose ==
    /\ \A h \in Handlers : dtor[h] >= SyncAt => ~registered[h]
    /\ \A h \in Handlers : dtor[h] = Len(Destructor) => ~_open[h]
    /\ last.op = "logMessage" => dtor[last.h] < SyncAt

C14_Witness ==
    /\ dtor[last.h] = Len(Destructor) /\ last.op = "~FSLogHandler"
    /\ Made(last, "close") /\ ~_open[last.h] /\ ~registered[last.h]

====
